---- MODULE Spec2Model ----
(***************************************************************************)
(* Model of the DDDzn backend (src/main.py): the keyword-matching          *)
(* assistant endpoint, the lead-capture endpoint and the checkout-session  *)
(* endpoint.                                                               *)
(*                                                                         *)
(* A Python str is a sequence of one-character strings, so that lower(),   *)
(* strip() and the `in` substring test are computed character by           *)
(* character.  An answer is a sequence of text pieces: the f-string of     *)
(* line 94 is its literal prefix, the interpolated email and its literal   *)
(* suffix.                                                                 *)
(***************************************************************************)
EXTENDS Integers, Sequences, FiniteSets, TLC

VARIABLES reqs,        \* assistant requests in flight: slot -> frame of assistant()
          stripe,      \* module global `stripe` (lines 100-103) and its api_key
          environ,     \* os.environ, as read by os.getenv
          checkout,    \* the create-checkout-session request being served
          store,       \* the document store behind create_document
          lead         \* the leads request being served

vars == <<reqs, stripe, environ, checkout, store, lead>>

\* Python's None.
None == "<None>"

----------------------------------------------------------------------------
(* Bounds of the model.                                                    *)

\* Largest number of fragments a generated question is made of.
MaxParts == 3

\* Number of assistant requests served simultaneously.
NumReq == 2

\* Largest number of documents the document store holds.
MaxDocs == 3

----------------------------------------------------------------------------
(* Python str operations used by assistant() (line 78, 90, 93).            *)

UpperChars == <<"A","B","C","D","E","F","G","H","I","J","K","L","M",
                "N","O","P","Q","R","S","T","U","V","W","X","Y","Z">>
LowerChars == <<"a","b","c","d","e","f","g","h","i","j","k","l","m",
                "n","o","p","q","r","s","t","u","v","w","x","y","z">>

\* The characters str.strip() removes (the ASCII ones).
Whitespace == {" ", "\t", "\n", "\r"}

\* str.lower() on one character.
LowerChar(c) ==
    IF \E i \in 1..26 : UpperChars[i] = c
    THEN LowerChars[CHOOSE i \in 1..26 : UpperChars[i] = c]
    ELSE c

\* str.lower()
LowerStr(s) == [i \in 1..Len(s) |-> LowerChar(s[i])]

RECURSIVE LStrip(_)
LStrip(s) ==
    IF s # <<>> /\ Head(s) \in Whitespace THEN LStrip(Tail(s)) ELSE s

RECURSIVE RStrip(_)
RStrip(s) ==
    IF s # <<>> /\ s[Len(s)] \in Whitespace
    THEN RStrip(SubSeq(s, 1, Len(s) - 1))
    ELSE s

\* str.strip()
Strip(s) == RStrip(LStrip(s))

\* `key in q` for two str: key occurs in q as a contiguous substring.
Contains(key, q) ==
    \E i \in 0..(Len(q) - Len(key)) : SubSeq(q, i + 1, i + Len(key)) = key

----------------------------------------------------------------------------
(* The literals of assistant() (lines 79-96).                              *)

DefaultEmail == "hello@dddzn.studio"

KeyServices  == <<"s","e","r","v","i","c","e","s">>
KeyPricing   == <<"p","r","i","c","i","n","g">>
KeyTimeline  == <<"t","i","m","e","l","i","n","e">>
KeyRevisions == <<"r","e","v","i","s","i","o","n","s">>
KeySoftware  == <<"s","o","f","t","w","a","r","e">>

AnsServices  == <<"We offer Exterior Design, Full Design Package, and Full Visualization, each tailored to your project's scope.">>
AnsPricing   == <<"Packages start at $499 for Exterior, $2,499 for Full Design, and $3,999 for Full Visualization. Final quotes depend on scope.">>
AnsTimeline  == <<"Typical timelines range from 2-6 weeks depending on complexity and revisions.">>
AnsRevisions == <<"All packages include structured revision rounds. Additional rounds can be added on request.">>
AnsSoftware  == <<"We primarily use Blender, Unreal Engine, and industry-standard DCC tools as needed.">>

\* The dict literal with its first two entries in the other order.
KnowledgeSwapped ==
    << [key |-> KeyPricing,   answer |-> AnsPricing],
       [key |-> KeyServices,  answer |-> AnsServices],
       [key |-> KeyTimeline,  answer |-> AnsTimeline],
       [key |-> KeyRevisions, answer |-> AnsRevisions],
       [key |-> KeySoftware,  answer |-> AnsSoftware] >>

\* The dict literal of lines 81-87; a dict iterates in insertion order.
Knowledge ==
    << [key |-> KeyServices,  answer |-> AnsServices],
       [key |-> KeyPricing,   answer |-> AnsPricing],
       [key |-> KeyTimeline,  answer |-> AnsTimeline],
       [key |-> KeyRevisions, answer |-> AnsRevisions],
       [key |-> KeySoftware,  answer |-> AnsSoftware] >>

\* The list literal of line 93.
TriggerWords ==
    { <<"h","o","w">>,
      <<"w","h","y">>,
      <<"o","p","t","i","m","i","z","e">>,
      <<"p","i","p","e","l","i","n","e">>,
      <<"r","e","n","d","e","r"," ","s","e","t","t","i","n","g","s">>,
      <<"c","o","m","p","l","e","x">>,
      <<"t","e","c","h","n","i","c","a","l">>,
      <<"a","p","i">>,
      <<"s","d","k">>,
      <<"i","n","t","e","g","r","a","t","i","o","n">> }

\* The f-string of line 94.
TechnicalAnswer(email) ==
    << "That sounds technical. For detailed guidance, please email us at ",
       email,
       " and our team will get back to you quickly." >>

\* Line 96 (its dash is written in ASCII here).
Generic == <<"We're DDDzn - Dreamscape, Development, & Designs. Ask about services, pricing, timelines, or send us your brief.">>

----------------------------------------------------------------------------
(* The statements of assistant() as functions of its locals.               *)

\* Line 78 without lower().
NormalizeNoLower(question) == Strip(question)

\* Line 78: payload.question.lower().strip()
Normalize(question) == Strip(LowerStr(question))

\* Line 79: payload.email or "hello@dddzn.studio"
ResolveEmail(email) == IF email = None \/ email = "" THEN DefaultEmail ELSE email

\* Line 93 matching whole words only.
IsTechnicalWholeWord(q) ==
    \E word \in TriggerWords :
        \E i \in 0..(Len(q) - Len(word)) :
            /\ SubSeq(q, i + 1, i + Len(word)) = word
            /\ (i = 0 \/ q[i] = " ")
            /\ (i + Len(word) = Len(q) \/ q[i + Len(word) + 1] = " ")

\* Line 93: any(word in q for word in [...])
IsTechnical(q) == \E word \in TriggerWords : Contains(word, q)

\* The loop of lines 89-91 ended without returning (no answer is empty).
NoMatch == <<>>

\* Lines 89-91 from entry i on: the answer of the first entry whose key is in
\* q, or NoMatch when the loop ends without returning.
RECURSIVE LookupFrom(_, _, _)
LookupFrom(knowledge, q, i) ==
    IF i > Len(knowledge) THEN NoMatch
    ELSE IF Contains(knowledge[i].key, q) THEN knowledge[i].answer
    ELSE LookupFrom(knowledge, q, i + 1)

\* Lines 89-93 with the trigger test placed before the loop.
LookupAfterTrigger(knowledge, q) ==
    IF IsTechnical(q) THEN NoMatch ELSE LookupFrom(knowledge, q, 1)

\* Lines 89-91: for key, answer in knowledge.items(): if key in q: return
Lookup(knowledge, q) == LookupFrom(knowledge, q, 1)

\* Lines 93-97 with the test of line 93 inverted.
FallbackInverted(q, email) == IF IsTechnical(q) THEN Generic ELSE TechnicalAnswer(email)

\* Lines 93-97: what assistant() answers once the loop found no topic.
Fallback(q, email) == IF IsTechnical(q) THEN TechnicalAnswer(email) ELSE Generic

\* Lines 78-97 run alone: the answer of assistant() for one payload.
Resolve(question, email) ==
    LET q     == Normalize(question)
        found == Lookup(Knowledge, q)
    IN  IF found # NoMatch THEN found ELSE Fallback(q, ResolveEmail(email))

----------------------------------------------------------------------------
(* POST /api/assistant (lines 72-97).                                      *)

\* The frame of a slot that serves no request.
IdleFrame ==
    [pc |-> "idle", payload |-> <<>>, q |-> <<>>, email |-> None,
     knowledge |-> <<>>, response |-> [status |-> 0]]

\* The well-formed addresses among the emails request bodies carry; "" and
\* "not-an-email" are not.
WellFormedEmails == {"a@b.com", "c@d.org"}

\* Optional[EmailStr] (line 74): None or a well-formed address.
ValidEmail(email) == email = None \/ email \in WellFormedEmails

\* AskPayload with email declared Optional[str]: any string passes.
ValidAskPayloadAnyEmail(payload) == "question" \in DOMAIN payload

\* AskPayload (lines 72-74): question is required, email is optional.
ValidAskPayload(payload) ==
    /\ "question" \in DOMAIN payload
    /\ ValidEmail(payload.email)

\* FastAPI parses the body into AskPayload before calling assistant()
\* (line 77); a body that does not validate is answered 422.
Receive(r, payloads) ==
    /\ reqs[r].pc = "idle"
    /\ \E payload \in payloads :
          reqs' = [reqs EXCEPT ![r] =
                     IF ValidAskPayload(payload)
                     THEN [IdleFrame EXCEPT !.pc = "handler", !.payload = payload]
                     ELSE [IdleFrame EXCEPT !.pc = "done", !.payload = payload,
                                            !.response = [status |-> 422]]]
    /\ UNCHANGED <<stripe, environ, checkout, store, lead>>

\* Lines 78-87 with q kept in a variable shared by all requests.
FramesAfterBeginSharedQ(r) ==
    [s \in DOMAIN reqs |->
        IF s = r
        THEN [reqs[r] EXCEPT !.pc = "lookup",
                             !.q = Normalize(reqs[r].payload.question),
                             !.email = ResolveEmail(reqs[r].payload.email),
                             !.knowledge = Knowledge]
        ELSE IF reqs[s].pc \in {"lookup", "fallback"}
        THEN [reqs[s] EXCEPT !.q = Normalize(reqs[r].payload.question)]
        ELSE reqs[s]]

\* Lines 78-87: the locals q, email and knowledge of request r are bound.
FramesAfterBegin(r) ==
    [reqs EXCEPT ![r] = [@ EXCEPT !.pc = "lookup",
                                  !.q = Normalize(reqs[r].payload.question),
                                  !.email = ResolveEmail(reqs[r].payload.email),
                                  !.knowledge = Knowledge]]

AssistantBegin(r) ==
    /\ reqs[r].pc = "handler"
    /\ reqs' = FramesAfterBegin(r)
    /\ UNCHANGED <<stripe, environ, checkout, store, lead>>

\* Lines 89-91: the loop over knowledge.items(); it returns the first match
\* or falls through to line 93.
AssistantLookup(r) ==
    /\ reqs[r].pc = "lookup"
    /\ LET found == Lookup(reqs[r].knowledge, reqs[r].q)
       IN  reqs' = [reqs EXCEPT ![r] =
                      IF found # NoMatch
                      THEN [@ EXCEPT !.pc = "done",
                                     !.response = [status |-> 200, answer |-> found]]
                      ELSE [@ EXCEPT !.pc = "fallback"]]
    /\ UNCHANGED <<stripe, environ, checkout, store, lead>>

\* Lines 93-97: the technical redirect or the generic answer.
AssistantFallback(r) ==
    /\ reqs[r].pc = "fallback"
    /\ reqs' = [reqs EXCEPT ![r] =
                  [@ EXCEPT !.pc = "done",
                            !.response = [status |-> 200,
                                          answer |-> Fallback(reqs[r].q,
                                                              reqs[r].email)]]]
    /\ UNCHANGED <<stripe, environ, checkout, store, lead>>

\* The response is sent and the frame is discarded.
AssistantFinish(r) ==
    /\ reqs[r].pc = "done"
    /\ reqs' = [reqs EXCEPT ![r] = IdleFrame]
    /\ UNCHANGED <<stripe, environ, checkout, store, lead>>

----------------------------------------------------------------------------
(* POST /api/create-checkout-session (lines 99-149).                       *)

\* HTTPException(status_code=..., detail=...) as the response it becomes.
HTTPException(status, detail) == [status |-> status, detail |-> detail]

\* Lines 109-113.
PRICE_MAP ==
    [p \in {"exterior", "full-design", "full-visualization"} |->
        CASE p = "exterior"           -> [name |-> "Exterior Design", amount |-> 49900]
          [] p = "full-design"        -> [name |-> "Full Design Package", amount |-> 249900]
          [] p = "full-visualization" -> [name |-> "Full Visualization", amount |-> 399900]]

\* What is handled in place of an exception when no check fails.
NoError == [status |-> 0, detail |-> ""]

\* Lines 117-126 with the secret tested before the library.
CheckoutErrorSecretFirst(payload) ==
    LET secret == environ.STRIPE_SECRET_KEY
    IN  IF secret = None \/ secret = ""
        THEN HTTPException(400, "Stripe not configured. Set STRIPE_SECRET_KEY.")
        ELSE IF ~stripe.installed
        THEN HTTPException(503, "Stripe not installed on server")
        ELSE IF payload.package \notin DOMAIN PRICE_MAP
        THEN HTTPException(400, "Unknown package")
        ELSE NoError

\* Lines 117-126: the three checks, in order; the first that fails raises.
CheckoutError(payload) ==
    LET secret == environ.STRIPE_SECRET_KEY
    IN  IF ~stripe.installed
        THEN HTTPException(503, "Stripe not installed on server")
        ELSE IF secret = None \/ secret = ""
        THEN HTTPException(400, "Stripe not configured. Set STRIPE_SECRET_KEY.")
        ELSE IF payload.package \notin DOMAIN PRICE_MAP
        THEN HTTPException(400, "Unknown package")
        ELSE NoError

\* Line 129: os.getenv("FRONTEND_URL") or "http://localhost:3000"
Domain ==
    IF environ.FRONTEND_URL = None \/ environ.FRONTEND_URL = ""
    THEN "http://localhost:3000"
    ELSE environ.FRONTEND_URL

\* Lines 131-146: the arguments of stripe.checkout.Session.create.
SessionCreateArgs(payload) ==
    [api_key        |-> environ.STRIPE_SECRET_KEY,
     mode           |-> "payment",
     currency       |-> "usd",
     product_name   |-> PRICE_MAP[payload.package].name,
     unit_amount    |-> PRICE_MAP[payload.package].amount,
     quantity       |-> 1,
     success_url    |-> <<Domain, "?status=success">>,
     cancel_url     |-> <<Domain, "?status=cancel">>,
     customer_email |-> payload.email]

\* What stripe.checkout.Session.create may do: return a session or raise.
SessionCreateOutcomes ==
    { [ok |-> TRUE,  url |-> "https://checkout.stripe.com/c/pay/cs_test_a1", error |-> ""],
      [ok |-> FALSE, url |-> "", error |-> "Invalid API Key provided"],
      [ok |-> FALSE, url |-> "", error |-> "Connection error"] }

\* Lines 130-149 without the try: the exception leaves the endpoint, and the
\* framework answers its plain 500.
SessionResponseUnhandled(outcome) ==
    IF outcome.ok
    THEN [status |-> 200, url |-> outcome.url]
    ELSE [status |-> 500, detail |-> "Internal Server Error"]

\* Lines 130-149: return {"url": session.url}, or HTTPException(500, str(e)).
SessionResponse(outcome) ==
    IF outcome.ok
    THEN [status |-> 200, url |-> outcome.url]
    ELSE HTTPException(500, outcome.error)

\* CheckoutPayload (lines 105-107): package is required, email is optional.
ValidCheckoutPayload(payload) ==
    /\ "package" \in DOMAIN payload
    /\ ValidEmail(payload.email)

\* Request bodies of POST /api/create-checkout-session, valid or not.
CheckoutPayloads ==
    {[package |-> package, email |-> email] :
        package \in {"exterior", "full-design", "full-visualization", "premium"},
        email \in {None, "a@b.com", "not-an-email"}}
    \cup {[email |-> None]}

NoCheckout == [pc |-> "idle"]

\* One request, from validation to response (lines 115-149).  calls lists
\* the provider calls the request made, each with what the provider did.
CreateCheckoutSession ==
    /\ checkout.pc = "idle"
    /\ \E payload \in CheckoutPayloads, outcome \in SessionCreateOutcomes :
          IF ~ValidCheckoutPayload(payload)
          THEN /\ checkout' = [pc |-> "done", payload |-> payload, calls |-> <<>>,
                               response |-> [status |-> 422]]
               /\ stripe' = stripe
          ELSE IF CheckoutError(payload) # NoError
          THEN /\ checkout' = [pc |-> "done", payload |-> payload, calls |-> <<>>,
                               response |-> CheckoutError(payload)]
               /\ stripe' = stripe
          ELSE /\ checkout' = [pc |-> "done", payload |-> payload,
                               calls |-> << [args |-> SessionCreateArgs(payload),
                                             outcome |-> outcome] >>,
                               response |-> SessionResponse(outcome)]
               /\ stripe' = [stripe EXCEPT !.api_key = environ.STRIPE_SECRET_KEY]
    /\ UNCHANGED <<reqs, environ, store, lead>>

\* The response is sent; the globals stay.
CheckoutFinish ==
    /\ checkout.pc = "done"
    /\ checkout' = NoCheckout
    /\ UNCHANGED <<reqs, stripe, environ, store, lead>>

----------------------------------------------------------------------------
(* POST /api/leads (lines 62-69).                                          *)

\* Contactlead bodies that validate.
Leads ==
    { [name |-> "Ann", email |-> "a@b.com", message |-> "Villa exterior"],
      [name |-> "Bob", email |-> "c@d.org", message |-> "Interior walkthrough"],
      [name |-> "Cy",  email |-> "a@b.com", message |-> "Full visualization"] }

\* What create_document may raise.
StoreErrors == {"Database not available", "connection timed out"}

\* create_document(collection_name, data): the document is stored and its
\* id returned, or an exception is raised and nothing is stored.  The id of
\* a document is its position in the store.
CreateDocumentOutcomes ==
    {[ok |-> FALSE, id |-> 0, error |-> e] : e \in StoreErrors}
    \cup (IF Len(store) < MaxDocs
          THEN {[ok |-> TRUE, id |-> Len(store) + 1, error |-> ""]}
          ELSE {})

\* Lines 65-69 with the exception swallowed.
LeadResponseSwallowed(outcome) ==
    [status |-> 200, body |-> [status |-> "ok", id |-> outcome.id]]

\* Lines 65-69: {"status": "ok", "id": lead_id}, or HTTPException(500, str(e)).
LeadResponse(outcome) ==
    IF outcome.ok
    THEN [status |-> 200, body |-> [status |-> "ok", id |-> outcome.id]]
    ELSE HTTPException(500, outcome.error)

NoLead == [pc |-> "idle"]

\* One request (lines 63-69): create_document is called with "contactlead"
\* and the lead; calls lists the calls the request made.
CreateLead ==
    /\ lead.pc = "idle"
    /\ \E payload \in Leads, outcome \in CreateDocumentOutcomes :
          /\ lead' = [pc |-> "done", payload |-> payload,
                      calls |-> << [collection |-> "contactlead", data |-> payload,
                                    outcome |-> outcome] >>,
                      response |-> LeadResponse(outcome)]
          /\ store' = IF outcome.ok
                      THEN Append(store, [collection |-> "contactlead", data |-> payload])
                      ELSE store
    /\ UNCHANGED <<reqs, stripe, environ, checkout>>

\* The response is sent.
LeadFinish ==
    /\ lead.pc = "done"
    /\ lead' = NoLead
    /\ UNCHANGED <<reqs, stripe, environ, checkout, store>>

----------------------------------------------------------------------------
(* Inputs.                                                                 *)

Fragments ==
    { <<"P","r","i","c","i","n","g">>,
      <<"s","e","r","v","i","c","e","s">>,
      <<"t","i","m","e","l","i","n","e">>,
      <<"r","e","v","i","s","i","o","n","s">>,
      <<"s","o","f","t","w","a","r","e">>,
      <<"H","o","w">>,
      <<"A","P","I">>,
      <<"s">>,
      <<"q","u","o","t","e">>,
      <<" ">> }

\* The questions made of at most n fragments.
RECURSIVE Concats(_)
Concats(n) ==
    IF n = 0 THEN {<<>>}
    ELSE LET shorter == Concats(n - 1)
         IN  shorter \cup {p \o f : p \in shorter, f \in Fragments}

Questions == Concats(MaxParts)

\* The questions of the requests served simultaneously.
ExampleQuestions ==
    { <<>>,
      <<" ","s","H","o","w","\t">>,
      <<"P","r","i","c","i","n","g"," ","s","e","r","v","i","c","e","s">> }

\* Request bodies of POST /api/assistant, valid or not.
AskPayloads ==
    {[question |-> question, email |-> email] :
        question \in ExampleQuestions, email \in {None, "a@b.com", "not-an-email"}}
    \cup {[email |-> "a@b.com"]}

\* The state of what a specification leaves alone.
NoStripe == [installed |-> FALSE, api_key |-> None]
NoEnviron == [STRIPE_SECRET_KEY |-> None, FRONTEND_URL |-> None]

----------------------------------------------------------------------------
(* Spec: the assistant endpoint serving NumReq requests at once.           *)

Init ==
    /\ reqs = [r \in 1..NumReq |-> IdleFrame]
    /\ stripe = NoStripe
    /\ environ = NoEnviron
    /\ checkout = NoCheckout
    /\ store = <<>>
    /\ lead = NoLead

Next ==
    \/ \E r \in DOMAIN reqs : Receive(r, AskPayloads)
    \/ \E r \in DOMAIN reqs : AssistantBegin(r)
    \/ \E r \in DOMAIN reqs : AssistantLookup(r)
    \/ \E r \in DOMAIN reqs : AssistantFallback(r)
    \/ \E r \in DOMAIN reqs : AssistantFinish(r)

Spec == Init /\ [][Next]_vars

----------------------------------------------------------------------------
(* SpecResolve: assistant() called once, on every question of Questions    *)
(* and with the email absent, empty or present.                            *)

InitResolve ==
    /\ \E question \in Questions, email \in {None, "", "a@b.com"} :
          reqs = [r \in {1} |->
                    [IdleFrame EXCEPT !.pc = "handler",
                                      !.payload = [question |-> question,
                                                   email |-> email]]]
    /\ stripe = NoStripe
    /\ environ = NoEnviron
    /\ checkout = NoCheckout
    /\ store = <<>>
    /\ lead = NoLead

NextResolve ==
    \/ \E r \in DOMAIN reqs : AssistantBegin(r)
    \/ \E r \in DOMAIN reqs : AssistantLookup(r)
    \/ \E r \in DOMAIN reqs : AssistantFallback(r)

SpecResolve == InitResolve /\ [][NextResolve]_vars

----------------------------------------------------------------------------
(* SpecCheckout: the checkout endpoint, for every state of the library     *)
(* import and of the environment.                                          *)

InitCheckout ==
    /\ reqs = [r \in {1} |-> IdleFrame]
    /\ \E installed \in BOOLEAN : stripe = [installed |-> installed, api_key |-> None]
    /\ \E secret \in {None, "", "sk_test_51"},
          url \in {None, "https://dddzn.studio"} :
          environ = [STRIPE_SECRET_KEY |-> secret, FRONTEND_URL |-> url]
    /\ checkout = NoCheckout
    /\ store = <<>>
    /\ lead = NoLead

NextCheckout ==
    \/ CreateCheckoutSession
    \/ CheckoutFinish

SpecCheckout == InitCheckout /\ [][NextCheckout]_vars

----------------------------------------------------------------------------
(* SpecLeads: the leads endpoint in front of a store of MaxDocs documents. *)

InitLeads ==
    /\ reqs = [r \in {1} |-> IdleFrame]
    /\ stripe = NoStripe
    /\ environ = NoEnviron
    /\ checkout = NoCheckout
    /\ store = <<>>
    /\ lead = NoLead

NextLeads ==
    \/ CreateLead
    \/ LeadFinish

SpecLeads == InitLeads /\ [][NextLeads]_vars

----------------------------------------------------------------------------
(* Claims about POST /api/assistant.                                       *)

\* The topics in the order the specification declares them.
DeclaredTopics ==
    << [key |-> KeyServices,  answer |-> AnsServices],
       [key |-> KeyPricing,   answer |-> AnsPricing],
       [key |-> KeyTimeline,  answer |-> AnsTimeline],
       [key |-> KeyRevisions, answer |-> AnsRevisions],
       [key |-> KeySoftware,  answer |-> AnsSoftware] >>

\* Request r has been answered by assistant().
Answered(r) == reqs[r].pc = "done" /\ reqs[r].response.status = 200

\* The normalized form of the question of request r: lower-cased, trimmed.
NormalizedQuestion(r) == Strip(LowerStr(reqs[r].payload.question))

HasTopic(nq) == \E i \in 1..Len(DeclaredTopics) : Contains(DeclaredTopics[i].key, nq)

HasTrigger(nq) == \E word \in TriggerWords : Contains(word, nq)

\* C1: every answered question gets the answer of the first topic, in the
\* order services, pricing, timeline, revisions, software, whose keyword is
\* a substring of the normalized question; so "pricing" without "services"
\* gets the pricing answer whatever later topic is present, and "services"
\* gets the services answer even when "pricing" comes earlier in the text.
C1_FirstDeclaredTopicWins ==
    \A r \in DOMAIN reqs :
        Answered(r) =>
            LET nq == NormalizedQuestion(r)
                answer == reqs[r].response.answer
            IN  /\ \A i \in 1..Len(DeclaredTopics) :
                      ( /\ Contains(DeclaredTopics[i].key, nq)
                        /\ \A j \in 1..(i - 1) : ~Contains(DeclaredTopics[j].key, nq) )
                      => answer = DeclaredTopics[i].answer
                /\ (Contains(KeyPricing, nq) /\ ~Contains(KeyServices, nq))
                      => answer = AnsPricing
                /\ Contains(KeyServices, nq) => answer = AnsServices

\* "Pricing services": pricing comes first in the text, services is answered.
C1_Witness ==
    \E r \in DOMAIN reqs :
        /\ Answered(r)
        /\ reqs[r].payload.question =
              <<"P","r","i","c","i","n","g"," ","s","e","r","v","i","c","e","s">>
        /\ reqs[r].response.answer = AnsServices

\* C2: a question whose normalized form holds no topic keyword but holds a
\* trigger word as a substring gets the technical redirect embedding the
\* caller's email, or hello@dddzn.studio when the email is absent or empty.
C2_TechnicalRedirect ==
    \A r \in DOMAIN reqs :
        Answered(r) =>
            LET nq == NormalizedQuestion(r)
                given == reqs[r].payload.email
            IN  (~HasTopic(nq) /\ HasTrigger(nq)) =>
                    reqs[r].response.answer =
                        << "That sounds technical. For detailed guidance, please email us at ",
                           IF given = None \/ given = "" THEN "hello@dddzn.studio" ELSE given,
                           " and our team will get back to you quickly." >>

\* "sHows": the trigger "how" occurs only inside a longer word.
C2_Witness ==
    \E r \in DOMAIN reqs :
        /\ Answered(r)
        /\ reqs[r].payload.question = <<"s","H","o","w","s">>
        /\ reqs[r].payload.email = "a@b.com"
        /\ reqs[r].response.answer = TechnicalAnswer("a@b.com")

\* C3: a question whose normalized form holds no topic keyword and no
\* trigger word gets the one generic answer, whatever the email; the empty
\* question and every whitespace-only question are such questions.
C3_GenericFallback ==
    \A r \in DOMAIN reqs :
        Answered(r) =>
            LET nq == NormalizedQuestion(r)
                question == reqs[r].payload.question
            IN  /\ (~HasTopic(nq) /\ ~HasTrigger(nq)) => reqs[r].response.answer = Generic
                /\ (\A i \in 1..Len(question) : question[i] \in Whitespace)
                      => reqs[r].response.answer = Generic

\* A question of two blanks, asked with an email, gets the generic answer.
C3_Witness ==
    \E r \in DOMAIN reqs :
        /\ Answered(r)
        /\ reqs[r].payload.question = <<" ", " ">>
        /\ reqs[r].payload.email = "a@b.com"
        /\ reqs[r].response.answer = Generic

\* C4: the answer to question q equals the answer to the normalized form of
\* q, to q lower-cased and to q with whitespace added at both ends.
C4_DependsOnNormalizedForm ==
    \A r \in DOMAIN reqs :
        Answered(r) =>
            LET question == reqs[r].payload.question
                email == reqs[r].payload.email
                answer == reqs[r].response.answer
            IN  /\ answer = Resolve(Strip(LowerStr(question)), email)
                /\ answer = Resolve(LowerStr(question), email)
                /\ answer = Resolve(<<" ", "\t">> \o question \o <<"\n">>, email)

\* " Pricing ": neither lower-case nor trimmed, answered as "pricing" is.
C4_Witness ==
    \E r \in DOMAIN reqs :
        /\ Answered(r)
        /\ reqs[r].payload.question = <<" ","P","r","i","c","i","n","g"," ">>
        /\ reqs[r].response.answer = AnsPricing

\* C9: line 93 is reached only when no topic keyword is in the normalized
\* question; a question holding a topic keyword and a trigger word gets a
\* topic answer, the same for every email.
C9_TriggerAfterTopics ==
    \A r \in DOMAIN reqs :
        LET nq == NormalizedQuestion(r)
        IN  /\ reqs[r].pc = "fallback" => ~HasTopic(nq)
            /\ (Answered(r) /\ HasTopic(nq) /\ HasTrigger(nq)) =>
                  /\ \E i \in 1..Len(DeclaredTopics) :
                        reqs[r].response.answer = DeclaredTopics[i].answer
                  /\ \A e \in {None, ""} \cup WellFormedEmails :
                        reqs[r].response.answer # TechnicalAnswer(ResolveEmail(e))
                        /\ reqs[r].response.answer = Resolve(reqs[r].payload.question, e)

\* "How Pricing": a trigger word and a topic keyword, answered with pricing.
C9_Witness ==
    \E r \in DOMAIN reqs :
        /\ Answered(r)
        /\ reqs[r].payload.question = <<"H","o","w"," ","P","r","i","c","i","n","g">>
        /\ reqs[r].payload.email = "a@b.com"
        /\ reqs[r].response.answer = AnsPricing

\* C5: a request with a question (empty or not) and an absent or
\* well-formed email ends with status 200 and one of the five topic answers,
\* the technical redirect or the generic answer, and no statement of
\* assistant() is stuck; any other request ends with status 422 and no
\* statement of assistant() has run for it.
C5_AssistantTotal ==
    \A r \in DOMAIN reqs :
        LET frame == reqs[r]
            valid == /\ "question" \in DOMAIN frame.payload
                     /\ frame.payload.email \in {None} \cup WellFormedEmails
        IN  /\ frame.pc \in {"handler", "lookup", "fallback"} => valid
            /\ frame.pc = "handler"  => ENABLED AssistantBegin(r)
            /\ frame.pc = "lookup"   => ENABLED AssistantLookup(r)
            /\ frame.pc = "fallback" => ENABLED AssistantFallback(r)
            /\ (frame.pc = "done" /\ valid) =>
                  /\ frame.response.status = 200
                  /\ DOMAIN frame.response = {"status", "answer"}
                  /\ \/ \E i \in 1..Len(DeclaredTopics) :
                           frame.response.answer = DeclaredTopics[i].answer
                     \/ frame.response.answer = Generic
                     \/ \E e \in {DefaultEmail} \cup WellFormedEmails :
                           frame.response.answer = TechnicalAnswer(e)
            /\ (frame.pc = "done" /\ ~valid) =>
                  /\ frame.response = [status |-> 422]
                  /\ frame.q = <<>> /\ frame.knowledge = <<>> /\ frame.email = None

\* The empty question without an email is answered 200 while a request with
\* a malformed email has been refused.
C5_Witness ==
    \E r, s \in DOMAIN reqs :
        /\ Answered(r)
        /\ reqs[r].payload = [question |-> <<>>, email |-> None]
        /\ reqs[r].response.answer = Generic
        /\ reqs[s].pc = "done"
        /\ reqs[s].payload.email = "not-an-email"
        /\ reqs[s].response.status = 422

\* C8: whatever the interleaving, an answered request has the answer its
\* question and email get when resolved alone, two requests with the same
\* inputs have the same answer, and the knowledge table of every request
\* past line 87 is the five declared entries in their order.
C8_RequestsIndependent ==
    /\ \A r \in DOMAIN reqs :
          /\ Answered(r) =>
                reqs[r].response.answer =
                    Resolve(reqs[r].payload.question, reqs[r].payload.email)
          /\ (reqs[r].pc \in {"lookup", "fallback"} \/ Answered(r)) =>
                reqs[r].knowledge = DeclaredTopics
    /\ \A r, s \in DOMAIN reqs :
          (Answered(r) /\ Answered(s) /\ reqs[r].payload = reqs[s].payload)
              => reqs[r].response = reqs[s].response

\* Two requests with different questions are answered at the same time,
\* each with its own answer.
C8_Witness ==
    \E r, s \in DOMAIN reqs :
        /\ Answered(r) /\ Answered(s)
        /\ reqs[r].payload.question = <<" ","s","H","o","w","\t">>
        /\ reqs[s].payload.question =
              <<"P","r","i","c","i","n","g"," ","s","e","r","v","i","c","e","s">>
        /\ reqs[r].response.answer = TechnicalAnswer(DefaultEmail)
        /\ reqs[s].response.answer = AnsServices

----------------------------------------------------------------------------
(* Claims about POST /api/create-checkout-session and POST /api/leads.     *)

\* The checkout request was validated and handled by the endpoint.
CheckoutHandled == checkout.pc = "done" /\ checkout.response.status # 422

SecretUnset == environ.STRIPE_SECRET_KEY = None \/ environ.STRIPE_SECRET_KEY = ""

\* C6: library absent gives 503, secret unset gives 400, an exception of the
\* provider gives 500 with the text of the exception, the url is returned
\* exactly when the provider call succeeded, and every response is a
\* success or an error raised by the endpoint itself.
C6_CheckoutFailureStatus ==
    CheckoutHandled =>
        LET response == checkout.response
            calls == checkout.calls
        IN  /\ ~stripe.installed => response.status = 503
            /\ (stripe.installed /\ SecretUnset) => response.status = 400
            /\ (calls # <<>> /\ ~calls[1].outcome.ok) =>
                  response = [status |-> 500, detail |-> calls[1].outcome.error]
            /\ ("url" \in DOMAIN response) <=> (calls # <<>> /\ calls[1].outcome.ok)
            /\ "url" \in DOMAIN response =>
                  response = [status |-> 200, url |-> calls[1].outcome.url]
            /\ response.status \in {200, 400, 500, 503}
            /\ response.status # 200 => response.detail # "Internal Server Error"

\* The provider raised and the endpoint answered 500 with its message.
C6_Witness ==
    /\ CheckoutHandled
    /\ checkout.calls # <<>>
    /\ checkout.calls[1].outcome.error = "Connection error"
    /\ checkout.response = [status |-> 500, detail |-> "Connection error"]

\* C10: the checks run in the order library, secret, package: 503 wins over
\* both 400s, an unknown package gives 400 "Unknown package", and the
\* provider is called at most once, only when the three checks pass, with
\* the unit amount of the requested package.
C10_CheckoutCheckOrder ==
    CheckoutHandled =>
        LET response == checkout.response
            calls == checkout.calls
            package == checkout.payload.package
            known == package \in {"exterior", "full-design", "full-visualization"}
        IN  /\ ~stripe.installed =>
                  response.status = 503 /\ calls = <<>>
            /\ (stripe.installed /\ SecretUnset) =>
                  response.status = 400 /\ response.detail # "Unknown package" /\ calls = <<>>
            /\ (stripe.installed /\ ~SecretUnset /\ ~known) =>
                  response = [status |-> 400, detail |-> "Unknown package"] /\ calls = <<>>
            /\ Len(calls) <= 1
            /\ (stripe.installed /\ ~SecretUnset /\ known) => Len(calls) = 1
            /\ calls # <<>> =>
                  /\ stripe.installed /\ ~SecretUnset /\ known
                  /\ calls[1].args.unit_amount =
                        CASE package = "exterior"           -> 49900
                          [] package = "full-design"        -> 249900
                          [] package = "full-visualization" -> 399900

\* Library absent, secret unset and package unknown at once: 503.
C10_Witness ==
    /\ CheckoutHandled
    /\ ~stripe.installed
    /\ SecretUnset
    /\ checkout.payload.package = "premium"
    /\ checkout.response.status = 503

\* C7: a leads request calls create_document once, with "contactlead"; the
\* id the call returns is answered with status ok, the exception it raises
\* is answered 500 with its text.
C7_LeadStoredOnce ==
    lead.pc = "done" =>
        /\ Len(lead.calls) = 1
        /\ lead.calls[1].collection = "contactlead"
        /\ lead.calls[1].data = lead.payload
        /\ lead.calls[1].outcome.ok =>
              /\ lead.response = [status |-> 200,
                                  body |-> [status |-> "ok", id |-> lead.calls[1].outcome.id]]
              /\ store[lead.calls[1].outcome.id].data = lead.payload
        /\ ~lead.calls[1].outcome.ok =>
              lead.response = [status |-> 500, detail |-> lead.calls[1].outcome.error]

\* create_document raised on a store that holds a document: 500, no retry.
C7_Witness ==
    /\ lead.pc = "done"
    /\ Len(store) = 1
    /\ lead.calls[1].outcome.error = "Database not available"
    /\ lead.response = [status |-> 500, detail |-> "Database not available"]

====
